---- MODULE Spec2Model ----
(***************************************************************************)
(* Model of app_32.py (Traveler App, AWS accelerated): the "Run AWS Query" *)
(* handler with the widgets that feed it, query_aws_api, and               *)
(* render_unified_export.                                                  *)
(*                                                                         *)
(* Modelling conventions                                                   *)
(*  - A Python Optional / "not yet produced" value is a sequence of length *)
(*    0 (absent) or 1 (present).                                           *)
(*  - A DataFrame is [tabular, columns, rows]: rows is the sequence of its *)
(*    rows (each a function column -> cell), columns the set of its column *)
(*    labels; tabular = FALSE stands for a value that is no DataFrame.     *)
(*  - Cells of the result table are integers.  The Range column holds the  *)
(*    rank of the range label in lexical order (1 = "High 1", 2 = "High    *)
(*    2", 3 = "Low 1", 4 = "Low 2"); an Arrival cell <= 0 stands for a     *)
(*    text that does not parse as a timestamp.                             *)
(*  - Centers are counted in steps of the number_input widget.             *)
(*  - Group names are sequences of one-character strings, so that          *)
(*    replace() and slicing are computed, not assumed.                     *)
(*  - The asset selector, the S3 upload section and the report time feed   *)
(*    only the asset_id / report_date payload fields and the file name of  *)
(*    the download; they are not part of the state.                        *)
(***************************************************************************)
EXTENDS Integers, Sequences, FiniteSets, TLC

VARIABLES
    measurement_file,   \* st.file_uploader value (line 223)
    use,                \* use_high1, use_high2, use_low1, use_low2 (lines 246-260)
    center,             \* high1, high2, low1, low2 (lines 247-262)
    scope_days,         \* line 265
    timeframes,         \* line 268
    cycle,              \* how the last run of the script ended
    errors,             \* st.error messages of the last run, in order
    measurements,       \* Optional: the list built at lines 287-296
    custom_ranges,      \* Optional: the dict built at lines 304-312
    api_calls,          \* payloads handed to requests.post in the last run
    remote,             \* Optional: how the POST of that call ended
    shown,              \* Optional: the DataFrame given to st.dataframe
    traveler_reports,   \* Optional: the dict given to render_unified_export
    export              \* Optional: what render_unified_export produced

inputs == <<measurement_file, use, center, scope_days, timeframes>>
outputs == <<cycle, errors, measurements, custom_ranges, api_calls, remote,
             shown, traveler_reports, export>>
vars == <<measurement_file, use, center, scope_days, timeframes,
          cycle, errors, measurements, custom_ranges, api_calls, remote,
          shown, traveler_reports, export>>

----------------------------------------------------------------------------
(* Bounds of the model *)

MaxCenter == 1      \* largest center typed into a number_input
MaxRows == 2        \* rows of a measurement sheet
MaxData == 2        \* rows of the remote service's "data"
MaxGroups == 2      \* groups of a TravelerReport handed to the export

(* Program constants *)

SheetNameLimit == 31     \* [:31], line 111
MinScopeDays == 1        \* min_value, line 265
MaxScopeDays == 365      \* max_value, line 265
DefaultScopeDays == 20   \* value, line 265
HttpOk == 200            \* line 72

Min(a, b) == IF a < b THEN a ELSE b

----------------------------------------------------------------------------
(* Custom ranges: lines 244-262 and 304-312 *)

Slots == {"high1", "high2", "low1", "low2"}

LabelOf(s) ==
    CASE s = "high1" -> "High 1"
      [] s = "high2" -> "High 2"
      [] s = "low1" -> "Low 1"
      [] s = "low2" -> "Low 2"

Labels == {LabelOf(s) : s \in Slots}

SlotOf(l) == CHOOSE s \in Slots : LabelOf(s) = l

CenterChoices == (-1) .. MaxCenter

\* Faulty variant: the center > 0 test is forgotten.
BuildCustomRangesNoCenterTest(u, c) ==
    [l \in {LabelOf(s) : s \in {t \in Slots : u[t]}} |->
        [enabled |-> TRUE, value |-> c[SlotOf(l)]]]

\* Faulty variant: the second low slot sends the first low slot's center.
BuildCustomRangesWrongSlot(u, c) ==
    [l \in {LabelOf(s) : s \in {t \in Slots : u[t] /\ c[t] > 0}} |->
        [enabled |-> TRUE,
         value |-> IF l = "Low 2" THEN c["low1"] ELSE c[SlotOf(l)]]]

BuildCustomRanges(u, c) ==
    [l \in {LabelOf(s) : s \in {t \in Slots : u[t] /\ c[t] > 0}} |->
        [enabled |-> TRUE, value |-> c[SlotOf(l)]]]

----------------------------------------------------------------------------
(* Measurement file and its normalisation: lines 278-301 *)

ValueSpellings == <<"M value", "M Value", "M_Value", "m_value">>
NameSpellings == <<"M Name", "M name", "M_name", "m_name">>

NoColumn == ""      \* None, the default of next()

\* Column layouts of the sheets the model uploads.
Layouts ==
    { <<"M value", "M Name">>,
      <<"M name", "M Value">>,
      <<"M_Value">>,
      <<"m_value", "M value", "m_name", "M Name">>,
      <<"M VALUE", "m name">>,
      <<"M_value", "M_Name">>,
      <<"Price">>,
      <<>> }

RowIds == 1 .. 2

RowSeqs == UNION {[1 .. n -> RowIds] : n \in 0 .. MaxRows}

NoFile == [kind |-> "none", columns |-> <<>>, rows |-> <<>>]
Unreadable == [kind |-> "unreadable", columns |-> <<>>, rows |-> <<>>]
Sheets == [kind : {"table"}, columns : Layouts, rows : RowSeqs]

MeasurementFiles == {NoFile, Unreadable} \cup Sheets

\* The few files the widget-level specification uploads.
FewFiles ==
    {NoFile, Unreadable,
     [kind |-> "table", columns |-> <<"M value", "M Name">>, rows |-> <<1, 2>>]}

Elems(f) == {f[i] : i \in DOMAIN f}

\* row[col]: the cell of row r under column col.
Cell(r, col) == [row |-> r, col |-> col]

\* next((c for c in variants if c in index), None)
RECURSIVE FirstFrom(_, _, _)
FirstFrom(variants, index, i) ==
    IF i > Len(variants) THEN NoColumn
    ELSE IF variants[i] \in index THEN variants[i]
    ELSE FirstFrom(variants, index, i + 1)

FirstMatch(variants, index) == FirstFrom(variants, index, 1)

\* The entry appended for one row (lines 293-296).
Measurement(r, m_val_col, m_name_col) ==
    [M_value |-> Cell(r, m_val_col),
     M_name |-> IF m_name_col # NoColumn
                THEN [prefix |-> "", cell |-> Cell(r, m_name_col)]
                ELSE [prefix |-> "M", cell |-> Cell(r, m_val_col)]]

\* Faulty variant: each entry is put at the front of the list.
RECURSIVE LoadReversed(_, _)
LoadReversed(columns, rows) ==
    IF rows = <<>> THEN <<>>
    ELSE LET m_val_col == FirstMatch(ValueSpellings, Elems(columns))
             m_name_col == FirstMatch(NameSpellings, Elems(columns))
             rest == LoadReversed(columns, Tail(rows))
         IN IF m_val_col # NoColumn
            THEN rest \o <<Measurement(Head(rows), m_val_col, m_name_col)>>
            ELSE rest

\* The loop of lines 287-296 over the rows of the sheet.
RECURSIVE LoadMeasurements(_, _)
LoadMeasurements(columns, rows) ==
    IF rows = <<>> THEN <<>>
    ELSE LET m_val_col == FirstMatch(ValueSpellings, Elems(columns))
             m_name_col == FirstMatch(NameSpellings, Elems(columns))
             rest == LoadMeasurements(columns, Tail(rows))
         IN IF m_val_col # NoColumn
            THEN <<Measurement(Head(rows), m_val_col, m_name_col)>> \o rest
            ELSE rest

----------------------------------------------------------------------------
(* DataFrames and the remote service's result table *)

RangedColumns == {"Range", "Group", "Output", "Arrival"}
PlainColumns == {"Group", "Output", "Arrival"}

RangedRows ==
    {[c \in RangedColumns |-> IF c = "Range" THEN r ELSE 1] : r \in {1, 3}}
PlainRows ==
    {[c \in PlainColumns |-> IF c = "Output" THEN o ELSE 1] : o \in {1, 2}}
BlankRow == [c \in {} |-> 0]     \* the row object {}

\* "data" of a response: a list of row objects.
ResultTables ==
    UNION {[1 .. n -> RangedRows] \cup [1 .. n -> PlainRows]
             \cup [1 .. n -> {BlankRow}] : n \in 0 .. MaxData}

\* pd.DataFrame(data): one row per object, the columns are the keys met.
DataFrame(data) ==
    [tabular |-> TRUE,
     columns |-> UNION {DOMAIN data[i] : i \in DOMAIN data},
     rows |-> data]

\* len(df) and df.empty (an axis of length 0)
RowCount(d) == Len(d.rows)
IsEmpty(d) == Len(d.rows) = 0 \/ d.columns = {}

----------------------------------------------------------------------------
(* query_aws_api: lines 58-77 *)

\* What the network can do with one POST: requests.post raises (a timeout
\* or another exception, line 76), or a response arrives with a status
\* code and, for 200, a JSON object holding "data" and "count".
RemoteOutcomes ==
    [kind : {"timeout", "exception"}, status : {0}, data : {<<>>}, count : {0}]
    \cup {[kind |-> "response", status |-> 500, data |-> <<>>, count |-> 0]}
    \cup {[kind |-> "response", status |-> HttpOk, data |-> t, count |-> n] :
            t \in ResultTables, n \in {0, 1, MaxData}}

\* The few outcomes the widget-level specification meets: every failure, and
\* an answer with no rows or with a "Low 1" row ahead of a "High 1" row.
FewOutcomes ==
    {net \in RemoteOutcomes :
        /\ net.count \in {0, MaxData}
        /\ \/ net.data = <<>>
           \/ /\ Len(net.data) = 2
              /\ "Range" \in DOMAIN net.data[1]
              /\ net.data[1]["Range"] > net.data[2]["Range"]}

\* Faulty variant: every response counts as a success, whatever its status.
QueryAwsApiAnyStatus(payload, net) ==
    IF net.kind = "response"
    THEN [success |-> TRUE, data |-> net.data, count |-> net.count]
    ELSE [success |-> FALSE, data |-> <<>>, count |-> 0]

QueryAwsApi(payload, net) ==
    IF net.kind = "response" /\ net.status = HttpOk
    THEN [success |-> TRUE, data |-> net.data, count |-> net.count]
    ELSE [success |-> FALSE, data |-> <<>>, count |-> 0]

----------------------------------------------------------------------------
(* render_unified_export: lines 80-135 *)

NaT == -1       \* the missing-timestamp marker of pd.to_datetime

\* pd.to_datetime(x, errors="coerce") on one cell
ToDatetime(x) == IF x > 0 THEN x ELSE NaT

\* _coerce_arrival_datetime, lines 90-96
CoerceArrivalDatetime(d) ==
    IF "Arrival_datetime" \in d.columns
    THEN [d EXCEPT
            !.columns = @ \cup {"Arrival"},
            !.rows = [i \in DOMAIN @ |->
                        [c \in DOMAIN @[i] \cup {"Arrival"} |->
                            IF c = "Arrival"
                            THEN ToDatetime(@[i]["Arrival_datetime"])
                            ELSE @[i][c]]]]
    ELSE IF "Arrival" \in d.columns
    THEN [d EXCEPT
            !.rows = [i \in DOMAIN @ |->
                        [c \in DOMAIN @[i] |->
                            IF c = "Arrival" THEN ToDatetime(@[i][c])
                            ELSE @[i][c]]]]
    ELSE d

\* group_data.drop(columns=["Group"], errors="ignore")
DropGroup(d) ==
    [d EXCEPT
        !.columns = @ \ {"Group"},
        !.rows = [i \in DOMAIN @ |-> [c \in DOMAIN @[i] \ {"Group"} |-> @[i][c]]]]

\* s.replace(old, new) for one-character old and new
Replace(s, old, new) == [i \in DOMAIN s |-> IF s[i] = old THEN new ELSE s[i]]

\* s[:n]
Take(s, n) == SubSeq(s, 1, Min(Len(s), n))

\* Faulty variant: hyphens are left in the sheet name.
SheetNameKeepsHyphen(group_name) ==
    Take(Replace(group_name, " ", "_"), SheetNameLimit)

\* line 111
SheetName(group_name) ==
    Take(Replace(Replace(group_name, " ", "_"), "-", "_"), SheetNameLimit)

\* The test of line 108: the group is passed over.
Skipped(group_data) == ~group_data.tabular \/ IsEmpty(group_data)

\* The to_excel calls of the loop of lines 107-123, in order.
RECURSIVE Writes(_)
Writes(reports) ==
    IF reports = <<>> THEN <<>>
    ELSE LET g == Head(reports)
         IN (IF Skipped(g.data) THEN <<>>
             ELSE <<[sheet_name |-> SheetName(g.name),
                     data |-> CoerceArrivalDatetime(DropGroup(g.data))]>>)
            \o Writes(Tail(reports))

\* line 126
RECURSIVE TotalEntries(_)
TotalEntries(reports) ==
    IF reports = <<>> THEN 0
    ELSE (IF Head(reports).data.tabular THEN RowCount(Head(reports).data) ELSE 0)
         + TotalEntries(Tail(reports))

\* line 127
NumGroups(reports) ==
    Cardinality({i \in DOMAIN reports :
                    reports[i].data.tabular /\ ~IsEmpty(reports[i].data)})

NoArtifact ==
    [artifact |-> FALSE, writes |-> <<>>, sheets |-> {},
     num_groups |-> 0, total_entries |-> 0]

\* The whole function.  writer.sheets holds one worksheet per distinct
\* sheet name: to_excel under a name already in the book writes into that
\* worksheet again.
RenderUnifiedExport(reports) ==
    IF reports = <<>> THEN NoArtifact
    ELSE [artifact |-> TRUE,
          writes |-> Writes(reports),
          sheets |-> {Writes(reports)[i].sheet_name : i \in DOMAIN Writes(reports)},
          num_groups |-> NumGroups(reports),
          total_entries |-> TotalEntries(reports)]

----------------------------------------------------------------------------
(* Group names and TravelerReports handed to the export *)

GrpAll == <<"G", "r", "p", "_", "A", "l", "l">>
GrpAllDay == <<"G", "r", "p", " ", "A", "l", "l", "-", "D", "a", "y">>
LongName == [i \in 1 .. 40 |->
                IF i % 7 = 0 THEN " " ELSE IF i % 5 = 0 THEN "-" ELSE "x"]

GroupNames == {GrpAll, GrpAllDay, LongName, <<"A", " ", "B">>, <<"A", "-", "B">>}

NotAFrame == [tabular |-> FALSE, columns |-> {}, rows |-> <<BlankRow>>]

GroupDatas ==
    {NotAFrame,
     DataFrame(<<>>),
     [tabular |-> TRUE, columns |-> PlainColumns, rows |-> <<>>],
     DataFrame(<<BlankRow>>)}
    \cup {DataFrame(<<r>>) : r \in PlainRows}
    \cup {DataFrame(<<r, r>>) : r \in RangedRows}

\* dicts: the keys are distinct, the order is the insertion order
TravelerReports ==
    {t \in UNION {[1 .. n -> [name : GroupNames, data : GroupDatas]] :
                    n \in 0 .. MaxGroups} :
        \A i, j \in DOMAIN t : i # j => t[i].name # t[j].name}

----------------------------------------------------------------------------
(* The "Run AWS Query" handler: lines 277-373 *)

TimeframeOptions == {"3m", "5m", "15m"}

NothingRun ==
    [cycle |-> "idle", errors |-> <<>>, measurements |-> <<>>,
     custom_ranges |-> <<>>, api_calls |-> <<>>, remote |-> <<>>,
     shown |-> <<>>, traveler_reports |-> <<>>, export |-> <<>>]

\* Lines 334-373: what is done with the answer of query_aws_api.
HandleReply(sofar, reply) ==
    IF reply.success
    THEN IF reply.count > 0
         THEN LET df == DataFrame(reply.data)
                  reports == <<[name |-> GrpAll, data |-> df]>>
              IN [sofar EXCEPT
                    !.cycle = "reported",
                    !.shown = <<df>>,
                    !.traveler_reports = <<reports>>,
                    !.export = <<RenderUnifiedExport(reports)>>]
         ELSE [sofar EXCEPT !.cycle = "no_entries"]
    ELSE [sofar EXCEPT !.cycle = "failed", !.errors = <<"Query failed">>]

\* One click on the button: the whole body of the if of line 277.
RunQuery(file, u, c, scope, tfs, net) ==
    IF file.kind = "none"
    THEN [NothingRun EXCEPT
            !.cycle = "stopped",
            !.errors = <<"Please upload a measurement file">>]
    ELSE IF file.kind = "unreadable"
    THEN [NothingRun EXCEPT
            !.cycle = "stopped",
            !.errors = <<"Error loading measurements">>]
    ELSE LET ms == LoadMeasurements(file.columns, file.rows)
             cr == BuildCustomRanges(u, c)
             payload == [timeframes |-> tfs, scope_days |-> scope,
                         custom_ranges |-> cr, measurements |-> ms]
             loaded == [NothingRun EXCEPT
                          !.measurements = <<ms>>, !.custom_ranges = <<cr>>]
         IN IF DOMAIN cr = {}
            THEN [loaded EXCEPT
                    !.cycle = "stopped",
                    !.errors = <<"Please enable at least one custom range">>]
            ELSE HandleReply([loaded EXCEPT
                                !.api_calls = <<payload>>,
                                !.remote = <<[kind |-> net.kind,
                                              status |-> net.status]>>],
                             QueryAwsApi(payload, net))

Show(r) ==
    /\ cycle' = r.cycle
    /\ errors' = r.errors
    /\ measurements' = r.measurements
    /\ custom_ranges' = r.custom_ranges
    /\ api_calls' = r.api_calls
    /\ remote' = r.remote
    /\ shown' = r.shown
    /\ traveler_reports' = r.traveler_reports
    /\ export' = r.export

----------------------------------------------------------------------------
(* Actions.  A change of a widget reruns the script with the button not   *)
(* clicked, so nothing of the last query stays on the page.               *)

UploadMeasurementFile(f) ==
    /\ measurement_file' = f
    /\ UNCHANGED <<use, center, scope_days, timeframes>>
    /\ Show(NothingRun)

\* A checkbox of lines 246-260; the number_input next to it is drawn only
\* while the box is ticked, and starts at 0.0.
ToggleRange(s) ==
    /\ use' = [use EXCEPT ![s] = ~@]
    /\ center' = [center EXCEPT ![s] = 0]
    /\ UNCHANGED <<measurement_file, scope_days, timeframes>>
    /\ Show(NothingRun)

SetCenter(s, v) ==
    /\ use[s]
    /\ center' = [center EXCEPT ![s] = v]
    /\ UNCHANGED <<measurement_file, use, scope_days, timeframes>>
    /\ Show(NothingRun)

\* The number_input of line 265 takes no value outside its min and max.
SetScopeDays(v) ==
    /\ MinScopeDays <= v
    /\ v <= MaxScopeDays
    /\ scope_days' = v
    /\ UNCHANGED <<measurement_file, use, center, timeframes>>
    /\ Show(NothingRun)

SelectTimeframes(tfs) ==
    /\ timeframes' = tfs
    /\ UNCHANGED <<measurement_file, use, center, scope_days>>
    /\ Show(NothingRun)

RunAWSQuery(net) ==
    /\ Show(RunQuery(measurement_file, use, center, scope_days, timeframes, net))
    /\ UNCHANGED inputs

\* render_unified_export applied to the report it was handed.
RenderExport ==
    /\ traveler_reports # <<>>
    /\ export = <<>>
    /\ export' = <<RenderUnifiedExport(traveler_reports[1])>>
    /\ UNCHANGED <<measurement_file, use, center, scope_days, timeframes,
                   cycle, errors, measurements, custom_ranges, api_calls,
                   remote, shown, traveler_reports>>

----------------------------------------------------------------------------
(* Specifications *)

ScopeChoices == {MinScopeDays - 1, MaxScopeDays, MaxScopeDays + 1}

Widgets ==
    /\ measurement_file = NoFile
    /\ use = [s \in Slots |-> FALSE]
    /\ center = [s \in Slots |-> 0]
    /\ scope_days = DefaultScopeDays
    /\ timeframes = TimeframeOptions

NothingShown ==
    /\ cycle = "idle"
    /\ errors = <<>>
    /\ measurements = <<>>
    /\ custom_ranges = <<>>
    /\ api_calls = <<>>
    /\ remote = <<>>
    /\ shown = <<>>
    /\ export = <<>>

\* The page as first drawn, and every click and edit after it.
Init ==
    /\ Widgets
    /\ NothingShown
    /\ traveler_reports = <<>>

Next ==
    \/ \E f \in FewFiles : UploadMeasurementFile(f)
    \/ \E s \in Slots : ToggleRange(s)
    \/ \E s \in Slots, v \in CenterChoices : SetCenter(s, v)
    \/ \E v \in ScopeChoices : SetScopeDays(v)
    \/ \E tfs \in SUBSET TimeframeOptions : SelectTimeframes(tfs)
    \/ \E net \in FewOutcomes : RunAWSQuery(net)

Spec == Init /\ [][Next]_vars

\* The measurement sheets: one range is active, every sheet is uploaded.
InitMeasure ==
    /\ measurement_file = NoFile
    /\ use = [s \in Slots |-> s = "high1"]
    /\ center = [s \in Slots |-> IF s = "high1" THEN 1 ELSE 0]
    /\ scope_days = DefaultScopeDays
    /\ timeframes = TimeframeOptions
    /\ NothingShown
    /\ traveler_reports = <<>>

NextMeasure ==
    \/ \E f \in MeasurementFiles : UploadMeasurementFile(f)
    \/ \E net \in RemoteOutcomes : RunAWSQuery(net)

SpecMeasure == InitMeasure /\ [][NextMeasure]_vars

\* render_unified_export as a function of the report it is handed.
InitExport ==
    /\ Widgets
    /\ NothingShown
    /\ traveler_reports \in {<<t>> : t \in TravelerReports}

NextExport == RenderExport

SpecExport == InitExport /\ [][NextExport]_vars

----------------------------------------------------------------------------
(* Properties of the query cycle (Spec).  A change of a widget clears the  *)
(* page, so in a state with cycle # "idle" the widgets hold the values the *)
(* cycle ran with.                                                         *)

NoRangeMessage == "Please enable at least one custom range"

Active(s) == use[s] /\ center[s] > 0
NoActiveRange == \A s \in Slots : ~use[s] \/ center[s] <= 0

\* C1, as stated: a query cycle with no active custom range always ends in
\* the no-active-range error, and the remote call is not attempted in it.
C1_EndsInNoActiveRangeError ==
    (cycle # "idle" /\ NoActiveRange) =>
        /\ errors = <<NoRangeMessage>>
        /\ api_calls = <<>>

\* C1, amended: a query cycle with no active custom range never attempts
\* the remote call and ends in exactly one validation error: the
\* no-active-range error when the measurement file was uploaded and read,
\* the measurement-file error otherwise.
C1_NoActiveRangeNoCall ==
    (cycle # "idle" /\ NoActiveRange) =>
        /\ api_calls = <<>>
        /\ remote = <<>>
        /\ cycle = "stopped"
        /\ Len(errors) = 1
        /\ (measurement_file.kind = "table") <=> (errors[1] = NoRangeMessage)

C1_Witness ==
    /\ cycle = "stopped"
    /\ measurement_file.kind = "table"
    /\ NoActiveRange
    /\ \E s \in Slots : use[s]
    /\ errors = <<NoRangeMessage>>
    /\ api_calls = <<>>

\* C2: the resolved custom_ranges mapping has an entry for a label exactly
\* when that slot is enabled with a center > 0, the entry is
\* {enabled: true, value: center}, and this mapping is the one sent.
C2_OnlyActiveRangesResolved ==
    custom_ranges # <<>> =>
        /\ DOMAIN custom_ranges[1] \subseteq Labels
        /\ \A s \in Slots :
              /\ (LabelOf(s) \in DOMAIN custom_ranges[1]) <=> Active(s)
              /\ Active(s) =>
                    custom_ranges[1][LabelOf(s)] =
                        [enabled |-> TRUE, value |-> center[s]]
        /\ \A i \in DOMAIN api_calls :
              api_calls[i].custom_ranges = custom_ranges[1]

C2_Witness ==
    /\ api_calls # <<>>
    /\ use["high1"] /\ center["high1"] <= 0
    /\ ~use["low1"]
    /\ Active("low2")
    /\ DOMAIN api_calls[1].custom_ranges = {"Low 2"}

\* C3, as stated: a query cycle with no timeframe selected reports a
\* validation error and never attempts the remote call, and no scope_days
\* outside [1, 365] reaches the remote call.
C3_NoTimeframeNoCall ==
    /\ (cycle # "idle" /\ timeframes = {}) =>
          /\ api_calls = <<>>
          /\ errors # <<>>
    /\ \A i \in DOMAIN api_calls :
          /\ api_calls[i].scope_days >= MinScopeDays
          /\ api_calls[i].scope_days <= MaxScopeDays

ValidationError ==
    cycle # "idle" /\ (measurement_file.kind # "table" \/ NoActiveRange)

RemoteError ==
    /\ remote # <<>>
    /\ ~(remote[1].kind = "response" /\ remote[1].status = HttpOk)

\* C4: a query cycle that ends in a validation error or in a remote-call
\* error builds no TravelerReport, does not call render_unified_export,
\* shows exactly one error message and makes the remote call at most once
\* (not at all after a validation error).
C4_ErrorCycleBuildsNothing ==
    (ValidationError \/ RemoteError) =>
        /\ traveler_reports = <<>>
        /\ export = <<>>
        /\ shown = <<>>
        /\ Len(errors) = 1
        /\ Len(api_calls) <= 1
        /\ ValidationError => api_calls = <<>>

C4_Witness ==
    /\ RemoteError
    /\ remote[1].kind = "response"
    /\ Len(api_calls) = 1
    /\ errors = <<"Query failed">>
    /\ export = <<>>

\* The sort key of the result table, and the order it defines.
SortKey(columns) ==
    IF "Range" \in columns
    THEN <<"Range", "Group", "Output", "Arrival">>
    ELSE <<"Group", "Output", "Arrival">>

RECURSIVE KeyLeq(_, _, _)
KeyLeq(r1, r2, key) ==
    IF key = <<>> THEN TRUE
    ELSE IF Head(key) \notin DOMAIN r1 \cap DOMAIN r2 THEN KeyLeq(r1, r2, Tail(key))
    ELSE IF r1[Head(key)] < r2[Head(key)] THEN TRUE
    ELSE IF r1[Head(key)] > r2[Head(key)] THEN FALSE
    ELSE KeyLeq(r1, r2, Tail(key))

InKeyOrder(rows, key) ==
    \A i, j \in DOMAIN rows : i < j => KeyLeq(rows[i], rows[j], key)

\* C5, as stated: the rows shown and the rows exported are in ascending
\* order of [Range, Group, Output, Arrival] ([Group, Output, Arrival]
\* without a Range column), whatever order the service returned them in.
C5_RowsInKeyOrder ==
    /\ \A i \in DOMAIN shown :
          InKeyOrder(shown[i].rows, SortKey(shown[i].columns))
    /\ \A i \in DOMAIN export : \A k \in DOMAIN export[i].writes :
          InKeyOrder(export[i].writes[k].data.rows,
                     SortKey(export[i].writes[k].data.columns))

----------------------------------------------------------------------------
(* Properties of render_unified_export (SpecExport) *)

\* The groups the export does not pass over, in order.
RECURSIVE Kept(_)
Kept(reports) ==
    IF reports = <<>> THEN <<>>
    ELSE (IF Head(reports).data.tabular /\ ~IsEmpty(Head(reports).data)
          THEN <<Head(reports)>> ELSE <<>>) \o Kept(Tail(reports))

RECURSIVE SumRows(_)
SumRows(groups) ==
    IF groups = <<>> THEN 0
    ELSE Len(Head(groups).data.rows) + SumRows(Tail(groups))

\* C6, as stated: the sheet-count metric equals the number of sheets
\* written to the workbook, and the total-entry metric equals the sum of
\* the row counts of the non-empty tabular groups (an empty or non-tabular
\* group writes no sheet and adds 0).
C6_MetricsMatchWorkbook ==
    \A i \in DOMAIN export :
        export[i].artifact =>
            /\ export[i].num_groups = Cardinality(export[i].sheets)
            /\ export[i].total_entries = SumRows(Kept(traveler_reports[1]))

\* C7, as stated: the export of a TravelerReport with no non-empty group
\* (an empty mapping, or only empty or non-tabular groups) still yields a
\* workbook artifact, with zero sheets and a total-entry count of 0.
C7_EmptyReportStillExported ==
    \A i \in DOMAIN export :
        Kept(traveler_reports[1]) = <<>> =>
            /\ export[i].artifact
            /\ export[i].writes = <<>>
            /\ export[i].sheets = {}
            /\ export[i].total_entries = 0

\* C10: the sheet name of every exported group is its group name with each
\* space and hyphen turned into an underscore, cut to its first 31
\* characters: at most 31 long, no space, no hyphen, and exactly 31 long
\* for a name of 40 characters.
C10_SheetNameRule ==
    \A i \in DOMAIN export :
        LET kept == Kept(traveler_reports[1])
            writes == export[i].writes
        IN /\ Len(writes) = Len(kept)
           /\ \A k \in DOMAIN writes :
                LET name == kept[k].name
                    sheet == writes[k].sheet_name
                IN /\ Len(sheet) = Min(Len(name), 31)
                   /\ Len(name) = 40 => Len(sheet) = 31
                   /\ \A n \in DOMAIN sheet :
                        /\ sheet[n] \notin {" ", "-"}
                        /\ sheet[n] = IF name[n] \in {" ", "-"} THEN "_"
                                      ELSE name[n]

C10_Witness ==
    /\ export # <<>>
    /\ Len(export[1].writes) = 2
    /\ Len(Kept(traveler_reports[1])[1].name) = 40
    /\ Len(export[1].writes[1].sheet_name) = 31
    /\ export[1].writes[2].sheet_name =
          <<"G", "r", "p", "_", "A", "l", "l", "_", "D", "a", "y">>

----------------------------------------------------------------------------
(* Properties of the measurement list (SpecMeasure) *)

ValueColumns(f) == Elems(f.columns) \cap Elems(ValueSpellings)
NameColumns(f) == Elems(f.columns) \cap Elems(NameSpellings)

\* C8: the measurement list holds one entry per row of a sheet that has a
\* recognizable value column, in row order, named from the name column or
\* "M" + value without one; no entry for rows without a value column; an
\* empty sheet gives an empty list; none of this reports an error.
C8_MeasurementsFollowRows ==
    /\ (cycle # "idle" /\ measurement_file.kind = "table") =>
          /\ measurements # <<>>
          /\ "Error loading measurements" \notin Elems(errors)
    /\ \A k \in DOMAIN measurements :
          LET ms == measurements[k]
              rows == measurement_file.rows
          IN IF ValueColumns(measurement_file) = {}
             THEN ms = <<>>
             ELSE /\ Len(ms) = Len(rows)
                  /\ \A i \in DOMAIN rows :
                        /\ \E c \in ValueColumns(measurement_file) :
                              ms[i].M_value = Cell(rows[i], c)
                        /\ IF NameColumns(measurement_file) = {}
                           THEN ms[i].M_name =
                                  [prefix |-> "M", cell |-> ms[i].M_value]
                           ELSE \E c \in NameColumns(measurement_file) :
                                  ms[i].M_name =
                                    [prefix |-> "", cell |-> Cell(rows[i], c)]

C8_Witness ==
    /\ measurements # <<>>
    /\ measurement_file.columns = <<"M_Value">>
    /\ measurement_file.rows = <<2, 1>>
    /\ Len(measurements[1]) = 2
    /\ measurements[1][1].M_value = Cell(2, "M_Value")
    /\ measurements[1][1].M_name.prefix = "M"

\* Lower-casing of the column headers the model uses.
Lower(h) ==
    CASE h \in {"M value", "M Value", "M VALUE"} -> "m value"
      [] h \in {"M_Value", "m_value", "M_value"} -> "m_value"
      [] h \in {"M Name", "M name", "m name"} -> "m name"
      [] h \in {"M_name", "m_name", "M_Name"} -> "m_name"
      [] h = "Price" -> "price"

\* C9, as stated: the value and name columns are matched without regard to
\* letter case: a sheet with a header that differs only in case from an
\* accepted value spelling has its rows turned into measurements, named
\* from a header that differs only in case from an accepted name spelling.
C9_HeadersMatchedInAnyCase ==
    \A k \in DOMAIN measurements :
        LET f == measurement_file
            anyCaseValue == {c \in Elems(f.columns) :
                               Lower(c) \in {Lower(v) : v \in Elems(ValueSpellings)}}
            anyCaseName == {c \in Elems(f.columns) :
                               Lower(c) \in {Lower(v) : v \in Elems(NameSpellings)}}
        IN anyCaseValue # {} =>
              /\ Len(measurements[k]) = Len(f.rows)
              /\ \A i \in DOMAIN measurements[k] :
                    anyCaseName # {} => measurements[k][i].M_name.prefix = ""

====
